---- MODULE Spec2Model ----
(***************************************************************************)
(* Model of the chat application: the model gateway object (backend.py),   *)
(* the chat bridge (apibridge.py) and its callers: an API client holding   *)
(* a request object, the Streamlit script (streamlitUI.py) and the ReactPy *)
(* component (reactui.py).                                                  *)
(*                                                                         *)
(* A text is a sequence of tokens; a string literal of the source is one   *)
(* token, string concatenation is \o, the empty string is << >>.            *)
(* A Python dict is a function whose DOMAIN is the set of its keys.         *)
(***************************************************************************)
EXTENDS Integers, Sequences, FiniteSets, TLC

VARIABLES
    caller,      \* who drives the bridge in this run: "client", "msgonly", "streamlit", "react"
    AI,          \* apibridge.AI, the shared AIClass instance
    payload,     \* the API client's request object (a dict)
    data,        \* the body of the client's /chat_messageonly request
    last,        \* record of the most recent bridge call: what went in, what the gateway saw, what came out
    messages,    \* UI session: the conversation
    settings,    \* UI session: the capability toggles
    session_id,  \* UI session: the session identifier
    input_text,  \* reactui: the text area's state
    is_sending,  \* reactui: the loading flag
    view,        \* reactui: the state values captured by the handlers of the last render
    stale,       \* reactui: events handled since the last render
    sent         \* UI session: the user message of the most recent accepted send

vars == <<caller, AI, payload, data, last, messages, settings, session_id,
          input_text, is_sending, view, stale, sent>>

uivars == <<messages, settings, session_id, input_text, is_sending, view, stale, sent>>

-----------------------------------------------------------------------------
(* Bounds *)

MaxConv == 3      \* longest conversation the API client builds
MaxMsgs == 4      \* longest conversation a UI session builds
MaxStale == 2     \* most events a ReactPy session handles between two renders

-----------------------------------------------------------------------------
(* Values *)

PyNone == "None"

DefaultModel == "gpt-4o"
Models == {"gpt-4o", "gpt-4o-mini"}

HealthInstructions == <<"You are a coding assistant that talks like a pirate.">>
HealthInput == <<"How do I check if a Python object is an instance of a class?">>
ChatInstructions == <<"You are a helpful assistant.">>
Placeholder == <<"User sent an empty message.">>

\* dict.get(key, default)
DictGet(d, key, default) == IF key \in DOMAIN d THEN d[key] ELSE default

\* What the hosted model may answer to one responses.create call: an output
\* text (possibly empty) or a raised exception.
OutputTexts == {<< >>, <<"r">>}
GatewayAnswers ==
    {[ok |-> TRUE, output_text |-> t] : t \in OutputTexts}
    \cup {[ok |-> FALSE, kind |-> "APIConnectionError", desc |-> <<"Connection error.">>]}

\* self.client.responses.create(model=, instructions=, input=): one external
\* call; the answer is the environment's.
responses_create(client, request, answer) ==
    IF answer.ok
    THEN [raised |-> FALSE, output_text |-> answer.output_text]
    ELSE [raised |-> TRUE, exc |-> [kind |-> answer.kind, desc |-> answer.desc]]

-----------------------------------------------------------------------------
(* backend.py: AIClass *)

AIClass_init == [client |-> [api_key |-> "OPENAI_API_KEY"]]

\* Each method yields: the instance and the argument object after the call,
\* the gateway requests it issued, and its return value or raised exception.
\* variant: the probe goes to the caller-facing default of another deployment
AIClass_health_check_other_model(self, answer) ==
    LET request == [model |-> "gpt-4o-mini",
                    instructions |-> HealthInstructions,
                    input |-> HealthInput]
        response == responses_create(self.client, request, answer)
    IN  [self |-> self,
         requests |-> <<request>>,
         raised |-> response.raised,
         value |-> IF response.raised THEN response.exc ELSE response.output_text]

AIClass_health_check(self, answer) ==
    LET request == [model |-> "gpt-4o",
                    instructions |-> HealthInstructions,
                    input |-> HealthInput]
        response == responses_create(self.client, request, answer)
    IN  [self |-> self,
         requests |-> <<request>>,
         raised |-> response.raised,
         value |-> IF response.raised THEN response.exc ELSE response.output_text]

\* for m in reversed(messages): if m.get("role") == "user": ...; break
RECURSIVE scan_reversed(_, _)
scan_reversed(msgs, i) ==
    IF i = 0 THEN << >>
    ELSE IF DictGet(msgs[i], "role", PyNone) = "user"
         THEN DictGet(msgs[i], "content", << >>)
         ELSE scan_reversed(msgs, i - 1)

\* variant: forward scan, stops at the oldest user message
RECURSIVE scan_forward(_, _)
scan_forward(msgs, i) ==
    IF i > Len(msgs) THEN << >>
    ELSE IF DictGet(msgs[i], "role", PyNone) = "user"
         THEN DictGet(msgs[i], "content", << >>)
         ELSE scan_forward(msgs, i + 1)

extract_first_user_msg(pl) ==
    LET msgs == DictGet(pl, "messages", << >>)
        last_user_msg == scan_forward(msgs, 1)
    IN  IF last_user_msg = << >> THEN Placeholder ELSE last_user_msg

\* variant: the "if not last_user_msg" substitution is missing
extract_no_placeholder(pl) ==
    LET msgs == DictGet(pl, "messages", << >>)
    IN  scan_reversed(msgs, Len(msgs))

\* variant: the scan goes on past a user message whose content is empty
RECURSIVE scan_reversed_nonempty(_, _)
scan_reversed_nonempty(msgs, i) ==
    IF i = 0 THEN << >>
    ELSE IF DictGet(msgs[i], "role", PyNone) = "user"
            /\ DictGet(msgs[i], "content", << >>) # << >>
         THEN DictGet(msgs[i], "content", << >>)
         ELSE scan_reversed_nonempty(msgs, i - 1)

extract_last_nonempty_user_msg(pl) ==
    LET msgs == DictGet(pl, "messages", << >>)
        last_user_msg == scan_reversed_nonempty(msgs, Len(msgs))
    IN  IF last_user_msg = << >> THEN Placeholder ELSE last_user_msg

\* lines 30-40: the prompt chat sends
extract_last_user_msg(pl) ==
    LET msgs == DictGet(pl, "messages", << >>)
        last_user_msg == scan_reversed(msgs, Len(msgs))
    IN  IF last_user_msg = << >> THEN Placeholder ELSE last_user_msg

Reverse(q) == [i \in 1..Len(q) |-> q[Len(q) + 1 - i]]

\* variant: messages.reverse() in place instead of reversed(messages)
AIClass_chat_reversing(self, pl, model, answer) ==
    LET request == [model |-> model,
                    instructions |-> ChatInstructions,
                    input |-> extract_last_user_msg(pl)]
        response == responses_create(self.client, request, answer)
    IN  [self |-> self,
         payload |-> IF "messages" \in DOMAIN pl
                     THEN [pl EXCEPT !.messages = Reverse(@)] ELSE pl,
         requests |-> <<request>>,
         raised |-> response.raised,
         value |-> IF response.raised THEN response.exc ELSE response.output_text]

\* variant: the "think" toggle of the request selects another model
AIClass_chat_settings(self, pl, model, answer) ==
    LET think == DictGet(DictGet(pl, "settings", [think |-> FALSE]), "think", FALSE)
        request == [model |-> IF think THEN "o1" ELSE model,
                    instructions |-> ChatInstructions,
                    input |-> extract_last_user_msg(pl)]
        response == responses_create(self.client, request, answer)
    IN  [self |-> self,
         payload |-> pl,
         requests |-> <<request>>,
         raised |-> response.raised,
         value |-> IF response.raised THEN response.exc ELSE response.output_text]

\* variant: the instance keeps the last prompt (self.last_user_msg = ...)
AIClass_chat_remembering(self, pl, model, answer) ==
    LET request == [model |-> model,
                    instructions |-> ChatInstructions,
                    input |-> extract_last_user_msg(pl)]
        response == responses_create(self.client, request, answer)
    IN  [self |-> [client |-> self.client, last_user_msg |-> request.input],
         payload |-> pl,
         requests |-> <<request>>,
         raised |-> response.raised,
         value |-> IF response.raised THEN response.exc ELSE response.output_text]

AIClass_chat(self, pl, model, answer) ==
    LET request == [model |-> model,
                    instructions |-> ChatInstructions,
                    input |-> extract_last_user_msg(pl)]
        response == responses_create(self.client, request, answer)
    IN  [self |-> self,
         payload |-> pl,
         requests |-> <<request>>,
         raised |-> response.raised,
         value |-> IF response.raised THEN response.exc ELSE response.output_text]

\* variant: an empty prompt is replaced as in chat
AIClass_chat_message_only_placeholder(self, prompt, system_prompt, model, answer) ==
    LET request == [model |-> model,
                    instructions |-> system_prompt,
                    input |-> IF prompt = << >> THEN Placeholder ELSE prompt]
        response == responses_create(self.client, request, answer)
    IN  [self |-> self,
         requests |-> <<request>>,
         raised |-> response.raised,
         value |-> IF response.raised THEN response.exc ELSE response.output_text]

AIClass_chat_message_only(self, prompt, system_prompt, model, answer) ==
    LET request == [model |-> model,
                    instructions |-> system_prompt,
                    input |-> prompt]
        response == responses_create(self.client, request, answer)
    IN  [self |-> self,
         requests |-> <<request>>,
         raised |-> response.raised,
         value |-> IF response.raised THEN response.exc ELSE response.output_text]

-----------------------------------------------------------------------------
(* apibridge.py: the three handlers *)

API_health_check(ai, answer) ==
    LET r == AIClass_health_check(ai, answer)
    IN  [r EXCEPT !.value = IF r.raised THEN @ ELSE [result |-> @]]

API_chat(ai, pl, answer) ==
    LET r == AIClass_chat(ai, pl, DefaultModel, answer)
    IN  [r EXCEPT !.value = IF r.raised THEN @ ELSE [response |-> @]]

API_chat_messageonly(ai, d, answer) ==
    LET prompt == DictGet(d, "prompt", << >>)
        system_prompt == DictGet(d, "system_prompt", << >>)
        model == DictGet(d, "model", "gpt-4o")
        r == AIClass_chat_message_only(ai, prompt, system_prompt, model, answer)
    IN  [r EXCEPT !.value = IF r.raised THEN @ ELSE [response |-> @]]

-----------------------------------------------------------------------------
(* The record of a bridge call *)

NoCall == [op |-> "none"]

CallRecord(op, via, arg, model, ai, answer, r) ==
    [op |-> op, via |-> via, arg |-> arg, model |-> model, self_before |-> ai,
     answer |-> answer, self_after |-> r.self, requests |-> r.requests,
     raised |-> r.raised, value |-> r.value,
     arg_after |-> IF op = "chat" THEN r.payload ELSE arg]

-----------------------------------------------------------------------------
(* The API client: builds a request object and posts it *)

DefaultSettings ==
    [web_search |-> TRUE, image_generation |-> TRUE, data_analysis |-> TRUE, think |-> FALSE]

ClientContents == {<< >>, <<"a">>, <<"b">>}
ClientMessages ==
    {[role |-> r, content |-> c] : r \in {"user", "assistant"}, c \in ClientContents}
    \cup {[role |-> "user"], [content |-> <<"a">>]}

ClientEnvelopes ==
    { [k \in K |-> CASE k = "settings" -> s [] k = "session_id" -> sid [] OTHER -> << >>] :
        K \in SUBSET {"messages", "settings", "session_id"},
        s \in {[DefaultSettings EXCEPT !.think = TRUE]},
        sid \in {"s1"} }

ClientData ==
    UNION { [K -> {<< >>, <<"p">>}] : K \in SUBSET {"prompt", "system_prompt"} }
    \cup  { [model |-> "gpt-4o-mini", prompt |-> <<"p">>, system_prompt |-> <<"s">>],
            [model |-> "gpt-4o-mini"] }

\* the client adds a message to the conversation of its request object
ClientAppend(m) ==
    /\ caller = "client"
    /\ "messages" \in DOMAIN payload
    /\ Len(payload.messages) < MaxConv
    /\ payload' = [payload EXCEPT !.messages = Append(@, m)]
    /\ last' = NoCall
    /\ UNCHANGED <<caller, AI, data, uivars>>

\* POST /chat
ClientChat(answer) ==
    /\ caller = "client"
    /\ LET r == API_chat(AI, payload, answer)
       IN  /\ AI' = r.self
           /\ payload' = r.payload
           /\ last' = CallRecord("chat", "bridge", payload, DefaultModel, AI, answer, r)
    /\ UNCHANGED <<caller, data, uivars>>

\* AIClass.chat(payload, model) called with an explicit model
ClientChatModel(model, answer) ==
    /\ caller = "client"
    /\ model # DefaultModel
    /\ LET r == AIClass_chat(AI, payload, model, answer)
       IN  /\ AI' = r.self
           /\ payload' = r.payload
           /\ last' = CallRecord("chat", "backend", payload, model, AI, answer, r)
    /\ UNCHANGED <<caller, data, uivars>>

\* GET /health
ClientHealth(answer) ==
    /\ caller \in {"client", "msgonly"}
    /\ LET r == API_health_check(AI, answer)
       IN  /\ AI' = r.self
           /\ last' = CallRecord("health", "bridge", << >>, "gpt-4o", AI, answer, r)
    /\ UNCHANGED <<caller, payload, data, uivars>>

\* POST /chat_messageonly
ClientChatMessageOnly(d, answer) ==
    /\ caller = "msgonly"
    /\ data' = d
    /\ LET r == API_chat_messageonly(AI, d, answer)
       IN  /\ AI' = r.self
           /\ last' = CallRecord("chat_messageonly", "bridge", d,
                                 DictGet(d, "model", "gpt-4o"), AI, answer, r)
    /\ UNCHANGED <<caller, payload, uivars>>

-----------------------------------------------------------------------------
(* What the two UIs share *)

SettingKeys == {"web_search", "image_generation", "data_analysis", "think"}

\* the toggles a session of the model operates
StToggled == {"web_search", "think"}
ReactToggled == {"think"}

\* variant: a failure is shown under a role of its own
chat_reply_error_role(r) ==
    IF r.raised
    THEN [role |-> "error",
          content |-> <<"Error while calling backend: ", r.value.kind, ": ">> \o r.value.desc]
    ELSE LET content == DictGet(r.value, "response", << >>)
         IN  [role |-> "assistant",
              content |-> IF content = << >>
                          THEN <<"Backend returned an empty response.">>
                          ELSE content]

\* variant: the failure is rendered as str(e) alone
chat_reply_bare(r) ==
    IF r.raised
    THEN [role |-> "assistant", content |-> r.value.desc]
    ELSE LET content == DictGet(r.value, "response", << >>)
         IN  [role |-> "assistant",
              content |-> IF content = << >>
                          THEN <<"Backend returned an empty response.">>
                          ELSE content]

\* chat_response.get("response", "") or "Backend returned an empty response."
\* / except Exception as e: "Error while calling backend: {type(e).__name__}: {e}"
chat_reply(r) ==
    IF r.raised
    THEN [role |-> "assistant",
          content |-> <<"Error while calling backend: ", r.value.kind, ": ">> \o r.value.desc]
    ELSE LET content == DictGet(r.value, "response", << >>)
         IN  [role |-> "assistant",
              content |-> IF content = << >>
                          THEN <<"Backend returned an empty response.">>
                          ELSE content]

\* txt = hc.get("result", str(hc)) / except: "Health check failed: ...";
\* the message shown is "[Health check]\n" + txt
health_message(r) ==
    LET txt == IF r.raised
               THEN <<"Health check failed: ", r.value.kind, ": ">> \o r.value.desc
               ELSE DictGet(r.value, "result", <<"{}">>)
    IN  [role |-> "assistant", content |-> <<"[Health check]\n">> \o txt]

-----------------------------------------------------------------------------
(* streamlitUI.py: one action per script run, the widget that triggered it *)

StPrompts == {<<"a">>, <<" ", "b">>}

\* the "Check health" button
StCheckHealth(answer) ==
    /\ caller = "streamlit"
    /\ Len(messages) < MaxMsgs
    /\ LET r == API_health_check(AI, answer)
       IN  /\ AI' = r.self
           /\ messages' = Append(messages, health_message(r))
           /\ last' = CallRecord("health", "ui", << >>, "gpt-4o", AI, answer, r)
    /\ UNCHANGED <<caller, payload, data, settings, session_id, input_text,
                   is_sending, view, stale, sent>>

\* a checkbox of the "Chat controls" popover
StCheckbox(key, value) ==
    /\ caller = "streamlit"
    /\ settings' = [settings EXCEPT ![key] = value]
    /\ UNCHANGED <<caller, AI, payload, data, last, messages, session_id,
                   input_text, is_sending, view, stale, sent>>

\* st.chat_input returned a prompt
StChatInput(prompt, answer) ==
    /\ caller = "streamlit"
    /\ Len(messages) + 2 <= MaxMsgs
    /\ prompt # << >>
    /\ LET user_msg == [role |-> "user", content |-> prompt]
           \* "messages": st.session_state.messages is the session's own list
           request == [messages |-> Append(messages, user_msg),
                       settings |-> settings,
                       session_id |-> session_id]
           r == API_chat(AI, request, answer)
       IN  /\ AI' = r.self
           /\ messages' = Append(DictGet(r.payload, "messages", << >>), chat_reply(r))
           /\ last' = CallRecord("chat", "ui", request, DefaultModel, AI, answer, r)
           /\ sent' = [msg |-> user_msg, at |-> Len(messages) + 1]
    /\ UNCHANGED <<caller, payload, data, settings, session_id, input_text,
                   is_sending, view, stale>>

-----------------------------------------------------------------------------
(* reactui.py: ChatApp.  The handlers read the values captured by the last  *)
(* render (view) and write the hook state through the setters.              *)

Whitespace == {" "}

RECURSIVE lstrip(_)
lstrip(t) == IF t # << >> /\ Head(t) \in Whitespace THEN lstrip(Tail(t)) ELSE t

RECURSIVE rstrip(_)
rstrip(t) ==
    IF t # << >> /\ t[Len(t)] \in Whitespace THEN rstrip(SubSeq(t, 1, Len(t) - 1)) ELSE t

\* str.strip()
strip(t) == rstrip(lstrip(t))

InputTexts == {<<" ">>, <<" ", "a", " ">>}

Snapshot == [messages |-> messages, input_text |-> input_text,
             settings |-> settings, is_sending |-> is_sending]

\* the component function runs again: the handlers capture the current state
ReactRender ==
    /\ caller = "react"
    /\ view # Snapshot
    /\ view' = Snapshot
    /\ stale' = 0
    /\ UNCHANGED <<caller, AI, payload, data, last, messages, settings, session_id,
                   input_text, is_sending, sent>>

on_change_input(value) ==
    /\ caller = "react"
    /\ stale < MaxStale
    /\ input_text' = value
    /\ stale' = stale + 1
    /\ UNCHANGED <<caller, AI, payload, data, last, messages, settings, session_id,
                   is_sending, view, sent>>

on_update_setting(key, value) ==
    /\ caller = "react"
    /\ stale < MaxStale
    /\ settings' = [settings EXCEPT ![key] = value]
    /\ stale' = stale + 1
    /\ UNCHANGED <<caller, AI, payload, data, last, messages, session_id,
                   input_text, is_sending, view, sent>>

\* variant: the setter is given the new message alone
add_message_replace(prev, msg) == <<msg>>

\* add_user / add_assistant / send_system_message: prev + [msg]
add_message(prev, msg) == Append(prev, msg)

\* variant: the request is built from the rendered messages alone
request_messages_stale(rendered, user_msg) ==
    [i \in 1..Len(rendered) |->
        [role |-> rendered[i].role, content |-> rendered[i].content]]

\* [{"role": m["role"], "content": m["content"]} for m in (messages + [user_msg])]
request_messages(rendered, user_msg) ==
    [i \in 1..(Len(rendered) + 1) |->
        LET m == Append(rendered, user_msg)[i]
        IN  [role |-> m.role, content |-> m.content]]

on_send_message ==
    /\ caller = "react"
    /\ stale < MaxStale
    /\ LET text == strip(view.input_text)
       IN  IF text = << >> \/ view.is_sending
           THEN UNCHANGED vars
           ELSE /\ Len(messages) + 2 <= MaxMsgs
                /\ \E answer \in GatewayAnswers :
                     LET user_msg == [role |-> "user", content |-> text]
                         with_user == add_message(messages, user_msg)
                         request ==
                           [messages |-> request_messages(view.messages, user_msg),
                            settings |-> view.settings,
                            session_id |-> session_id]
                         r == API_chat(AI, request, answer)
                     IN  /\ AI' = r.self
                         /\ messages' = add_message(with_user, chat_reply(r))
                         /\ input_text' = << >>
                         /\ is_sending' = FALSE
                         /\ last' = CallRecord("chat", "ui", request, DefaultModel, AI, answer, r)
                         /\ sent' = [msg |-> user_msg, at |-> Len(messages) + 1]
                /\ stale' = stale + 1
                /\ UNCHANGED <<caller, payload, data, settings, session_id, view>>

on_health_check(answer) ==
    /\ caller = "react"
    /\ stale < MaxStale
    /\ Len(messages) < MaxMsgs
    /\ LET r == API_health_check(AI, answer)
       IN  /\ AI' = r.self
           /\ messages' = add_message(messages, health_message(r))
           /\ last' = CallRecord("health", "ui", << >>, "gpt-4o", AI, answer, r)
    /\ stale' = stale + 1
    /\ UNCHANGED <<caller, payload, data, settings, session_id, input_text,
                   is_sending, view, sent>>

-----------------------------------------------------------------------------
(* Specification *)

Init ==
    /\ caller \in {"client", "msgonly", "streamlit", "react"}
    /\ AI = AIClass_init
    /\ payload \in (IF caller = "client" THEN ClientEnvelopes ELSE {<< >>})
    /\ data = << >>
    /\ last = NoCall
    /\ messages = << >>
    /\ settings = DefaultSettings
    /\ session_id = "uuid4"
    /\ input_text = << >>
    /\ is_sending = FALSE
    /\ view = Snapshot
    /\ stale = 0
    /\ sent = [msg |-> << >>, at |-> 0]

Next ==
    \/ \E m \in ClientMessages : ClientAppend(m)
    \/ \E a \in GatewayAnswers : ClientChat(a)
    \/ \E mo \in Models, a \in GatewayAnswers : ClientChatModel(mo, a)
    \/ \E a \in GatewayAnswers : ClientHealth(a)
    \/ \E d \in ClientData, a \in GatewayAnswers : ClientChatMessageOnly(d, a)
    \/ \E a \in GatewayAnswers : StCheckHealth(a)
    \/ \E k \in StToggled, v \in BOOLEAN : StCheckbox(k, v)
    \/ \E p \in StPrompts, a \in GatewayAnswers : StChatInput(p, a)
    \/ ReactRender
    \/ \E t \in InputTexts : on_change_input(t)
    \/ \E k \in ReactToggled, v \in BOOLEAN : on_update_setting(k, v)
    \/ on_send_message
    \/ \E a \in GatewayAnswers : on_health_check(a)

Spec == Init /\ [][Next]_vars

-----------------------------------------------------------------------------
(* Properties *)

UIs == {"streamlit", "react"}

IsUser(m) == "role" \in DOMAIN m /\ m.role = "user"
UserIdx(msgs) == {i \in 1..Len(msgs) : IsUser(msgs[i])}
Max(S) == CHOOSE x \in S : \A y \in S : y <= x
MostRecentUser(msgs) == msgs[Max(UserIdx(msgs))]
ContentOf(m) == DictGet(m, "content", << >>)

\* the conversation of the request of the last chat call
ChatMsgs == DictGet(last.arg, "messages", << >>)

ChatRequest(model, prompt) ==
    [model |-> model, instructions |-> ChatInstructions, input |-> prompt]

StartsWith(t, token) == t # << >> /\ Head(t) = token

\* a conversation of the data model: every message has a role and a content
WellFormed(msgs) == \A i \in 1..Len(msgs) : DOMAIN msgs[i] = {"role", "content"}

\* C1 as stated: whenever the conversation has a user-role message, the prompt
\* of the gateway call is the content of the most recent user-role message.
C1_AsStated ==
    (last.op = "chat" /\ WellFormed(ChatMsgs) /\ UserIdx(ChatMsgs) # {})
        => last.requests[1].input = MostRecentUser(ChatMsgs).content

\* C1 amended: whenever the most recent user-role message of the conversation
\* has a non-empty content, chat makes one gateway call whose prompt is that
\* content, whatever precedes or follows the message.
C1_LastUserPrompt ==
    (last.op = "chat" /\ UserIdx(ChatMsgs) # {}
        /\ ContentOf(MostRecentUser(ChatMsgs)) # << >>)
        => last.requests = <<ChatRequest(last.model, ContentOf(MostRecentUser(ChatMsgs)))>>

C1_Witness ==
    /\ last.op = "chat"
    /\ Len(ChatMsgs) = 3
    /\ IsUser(ChatMsgs[1]) /\ IsUser(ChatMsgs[2]) /\ ~IsUser(ChatMsgs[3])
    /\ ContentOf(ChatMsgs[1]) = <<"a">>
    /\ ContentOf(ChatMsgs[2]) = <<"b">>
    /\ last.requests[1].input = <<"b">>

\* C2: a chat call on a conversation without user-role message (the empty and
\* the absent conversation included) sends the placeholder prompt, returns the
\* gateway's text when the gateway answers, and fails only when the gateway fails.
C2_NoUserPlaceholder ==
    (last.op = "chat" /\ UserIdx(ChatMsgs) = {})
        => /\ last.requests = <<ChatRequest(last.model, Placeholder)>>
           /\ last.raised = ~last.answer.ok
           /\ last.answer.ok =>
                last.value = IF last.via = "backend"
                             THEN last.answer.output_text
                             ELSE [response |-> last.answer.output_text]

C2_Witness ==
    /\ last.op = "chat"
    /\ "messages" \in DOMAIN last.arg
    /\ Len(ChatMsgs) = 2
    /\ UserIdx(ChatMsgs) = {}
    /\ last.answer.ok
    /\ last.value = [response |-> <<"r">>]

\* C3: after a chat call, returned or failed, the request object is what it was
\* before the call, and so is the object the caller still holds.
C3_InputUnchanged ==
    last.op = "chat"
        => /\ last.arg_after = last.arg
           /\ caller = "client" => payload = last.arg
           /\ caller = "streamlit" =>
                SubSeq(messages, 1, Len(messages) - 1) = last.arg.messages

C3_Witness ==
    /\ last.op = "chat"
    /\ caller = "streamlit"
    /\ last.raised
    /\ Len(last.arg.messages) = 3
    /\ last.arg.messages[1] # last.arg.messages[3]

\* the requests that differ from pl in settings and session_id alone
SettingsValues ==
    {[k \in SettingKeys |-> b] : b \in BOOLEAN}
    \cup {DefaultSettings, [DefaultSettings EXCEPT !.think = TRUE]}
SessionValues == {"s1", "s2", "uuid4"}
Variants(pl) ==
    LET base == [k \in DOMAIN pl \ {"settings", "session_id"} |-> pl[k]]
        With(d, k, v) == [x \in DOMAIN d \cup {k} |-> IF x = k THEN v ELSE d[x]]
        withSettings == {base} \cup {With(base, "settings", v) : v \in SettingsValues}
    IN  withSettings \cup
        {With(d, "session_id", v) : d \in withSettings, v \in SessionValues}

Redo(ai, c, arg) ==
    CASE c.op = "chat" /\ c.via = "backend" -> AIClass_chat(ai, arg, c.model, c.answer)
      [] c.op = "chat" /\ c.via # "backend" -> API_chat(ai, arg, c.answer)
      [] c.op = "health" -> API_health_check(ai, c.answer)
      [] c.op = "chat_messageonly" -> API_chat_messageonly(ai, arg, c.answer)

\* C4: a chat request with the same messages and model, whatever its settings
\* and session_id (absent included), leads to the same gateway call and the
\* same outcome as the request that was made.
C4_SettingsSessionInert ==
    last.op = "chat"
        => \A q \in Variants(last.arg) :
              LET r == Redo(last.self_before, last, q)
              IN  /\ r.requests = last.requests
                  /\ r.raised = last.raised
                  /\ r.value = last.value

C4_Witness ==
    /\ last.op = "chat"
    /\ "settings" \in DOMAIN last.arg
    /\ last.arg.settings.think
    /\ "session_id" \in DOMAIN last.arg
    /\ UserIdx(ChatMsgs) # {}
    /\ ~last.raised

\* C5: when the gateway call of a chat fails, the bridge has made that one call
\* and raises the failure; the UI has appended, after the user message, exactly
\* one assistant message starting with "Error while calling backend: ", and is
\* not left in the sending state.
C5_FailurePropagates ==
    (last.op = "chat" /\ ~last.answer.ok)
        => /\ Len(last.requests) = 1
           /\ last.raised
           /\ last.value = [kind |-> last.answer.kind, desc |-> last.answer.desc]
           /\ caller \in UIs =>
                /\ Len(messages) = sent.at + 1
                /\ messages[sent.at] = sent.msg
                /\ messages[sent.at + 1].role = "assistant"
                /\ StartsWith(messages[sent.at + 1].content, "Error while calling backend: ")
                /\ ~is_sending

C5_Witness ==
    /\ caller = "react"
    /\ last.op = "chat"
    /\ last.raised
    /\ sent.at = 3
    /\ messages[4].content =
         <<"Error while calling backend: ", "APIConnectionError", ": ", "Connection error.">>

\* C6: chat_messageonly makes one gateway call with the request's prompt,
\* system prompt and model as given (an empty or absent prompt or system
\* prompt is the empty text, an absent model the default), and returns the
\* gateway's output in a response envelope.
C6_MessageOnlyVerbatim ==
    last.op = "chat_messageonly"
        => /\ last.requests =
                <<[model |-> DictGet(data, "model", DefaultModel),
                   instructions |-> DictGet(data, "system_prompt", << >>),
                   input |-> DictGet(data, "prompt", << >>)]>>
           /\ last.raised = ~last.answer.ok
           /\ last.answer.ok => last.value = [response |-> last.answer.output_text]

C6_Witness ==
    /\ last.op = "chat_messageonly"
    /\ DOMAIN data = {"prompt", "system_prompt"}
    /\ data.prompt = << >>
    /\ data.system_prompt = << >>
    /\ last.requests[1].input = << >>
    /\ last.value = [response |-> <<"r">>]

\* C7: the conversation a UI session passes to chat is not empty and ends
\* with the user message just submitted.
C7_PayloadEndsWithSubmitted ==
    (caller \in UIs /\ last.op = "chat")
        => /\ "messages" \in DOMAIN last.arg
           /\ Len(last.arg.messages) >= 1
           /\ last.arg.messages[Len(last.arg.messages)] = sent.msg
           /\ sent.msg.role = "user"
           /\ sent.msg.content # << >>

\* a send handled before the render that follows a health check: the request
\* is built from the rendered conversation, shorter than the session's
C7_Witness ==
    /\ caller = "react"
    /\ last.op = "chat"
    /\ settings # DefaultSettings
    /\ Len(last.arg.messages) < sent.at
    /\ last.arg.messages[Len(last.arg.messages)] = sent.msg

\* C8: every step of a UI session leaves the messages of the conversation in
\* place and unchanged, and never shortens it.
C8_AppendOnly ==
    [][ /\ Len(messages') >= Len(messages)
        /\ SubSeq(messages', 1, Len(messages)) = messages ]_vars

C8_Witness ==
    /\ caller = "react"
    /\ Len(messages) = 4
    /\ messages[1].role = "assistant"
    /\ messages[2].role = "user"
    /\ StartsWith(messages[3].content, "Error while calling backend: ")
    /\ StartsWith(messages[4].content, "[Health check]\n")
    /\ settings # DefaultSettings

\* C9: every bridge call leaves the shared instance as constructed, and its
\* gateway call and outcome are those a freshly constructed instance gives
\* for the same arguments and gateway answer.
C9_NoStateAcrossCalls ==
    /\ AI = AIClass_init
    /\ last.op # "none" =>
         /\ last.self_after = last.self_before
         /\ LET r == Redo(AIClass_init, last, last.arg)
            IN  /\ r.requests = last.requests
                /\ r.raised = last.raised
                /\ r.value = last.value

C9_Witness ==
    /\ caller = "streamlit"
    /\ Len(messages) = 4
    /\ StartsWith(messages[2].content, "Error while calling backend: ")
    /\ messages[1].content # messages[3].content
    /\ last.op = "chat"
    /\ ~last.raised

HealthRequest ==
    [model |-> "gpt-4o", instructions |-> HealthInstructions, input |-> HealthInput]

\* C10 as stated: a health check whose gateway call succeeds returns a
\* non-empty text in a result envelope, and the call is the fixed one.
C10_AsStated ==
    last.op = "health"
        => /\ last.requests = <<HealthRequest>>
           /\ last.answer.ok =>
                /\ DOMAIN last.value = {"result"}
                /\ last.value.result # << >>

\* C10 amended: a health check whose gateway call succeeds returns the
\* gateway's text as it is, in a result envelope (so a non-empty text whenever
\* the gateway's text is non-empty), and the call is always the fixed one.
C10_HealthRawText ==
    last.op = "health"
        => /\ last.requests = <<HealthRequest>>
           /\ last.raised = ~last.answer.ok
           /\ last.answer.ok => last.value = [result |-> last.answer.output_text]

C10_Witness ==
    /\ last.op = "health"
    /\ caller = "msgonly"
    /\ data # << >>
    /\ last.value = [result |-> <<"r">>]

\* C11: when the most recent user-role message of the conversation has an
\* empty or missing content, the scan stops there: chat makes one gateway call
\* with the placeholder prompt, whatever non-empty content an earlier
\* user-role message has.
C11_EmptyLastUserStopsScan ==
    (last.op = "chat" /\ UserIdx(ChatMsgs) # {}
        /\ ContentOf(MostRecentUser(ChatMsgs)) = << >>)
        => last.requests = <<ChatRequest(last.model, Placeholder)>>

\* an earlier user message with content "a", then a user message without
\* content key, then an assistant message
C11_Witness ==
    /\ last.op = "chat"
    /\ Len(ChatMsgs) = 3
    /\ ChatMsgs[1] = [role |-> "user", content |-> <<"a">>]
    /\ ChatMsgs[2] = [role |-> "user"]
    /\ ~IsUser(ChatMsgs[3])
    /\ last.requests[1].input = Placeholder

\* every user message of the conversation is directly followed by an
\* assistant message
Paired ==
    \A i \in 1..Len(messages) :
        messages[i].role = "user"
            => i < Len(messages) /\ messages[i + 1].role = "assistant"

\* C12: a step of a UI session that accepts a send appends exactly two
\* messages, the submitted user message and then one assistant-role message,
\* whether the backend call returned or failed; and in every state of a UI
\* session each user message is directly followed by an assistant message, so
\* that no two user messages are adjacent.
C12_SendAppendsPair ==
    /\ [][ (caller \in UIs /\ sent' # sent)
            => /\ Len(messages') = Len(messages) + 2
               /\ SubSeq(messages', 1, Len(messages)) = messages
               /\ messages'[Len(messages) + 1] = sent'.msg
               /\ sent'.msg.role = "user"
               /\ messages'[Len(messages) + 2].role = "assistant" ]_vars
    /\ [](caller \in UIs => Paired)

\* two sends handled by reactui between two renders, the first failed and the
\* second answered
C12_Witness ==
    /\ caller = "react"
    /\ Len(messages) = 4
    /\ messages[1].role = "user" /\ messages[3].role = "user"
    /\ StartsWith(messages[2].content, "Error while calling backend: ")
    /\ messages[4] = [role |-> "assistant", content |-> <<"r">>]
    /\ view.messages = << >>
    /\ sent.at = 3

====
